---- MODULE Spec2Model ----
(***************************************************************************)
(* A model of src/app.py: the LINE webhook chatbot "Anxin".                *)
(*                                                                         *)
(* Part 1 is the running program: the webhook handler handle_message       *)
(* (lines 166-176), run by several request threads at once (app.run of     *)
(* Flask serves each request on its own thread), the registry user_lock    *)
(* (line 26), and the worker threads that run process_message.             *)
(*                                                                         *)
(* process_message reads its local variable `messages` at line 184, before *)
(* any assignment to it (the assignments are at lines 206 and 209, and     *)
(* they make the name local to the function).  Python raises               *)
(* UnboundLocalError there, on every call, and line 184 is outside the     *)
(* try statement that starts at line 199: the exception leaves the         *)
(* function, neither the except clause (361) nor the finally clause (365)  *)
(* runs, and the worker thread ends.  Lines 186-367 are never reached by   *)
(* the running program.                                                    *)
(*                                                                         *)
(* Parts 2 and 3 model code of those lines as functions of their inputs:   *)
(* Part 2 the assembly of the list sent to the backend (lines 212-256,     *)
(* SpecBuild), Part 3 the try statement run turn by turn for one user      *)
(* (lines 199-367): with calls that succeed (SpecTurn), with calls that    *)
(* may raise (SpecFault), and its chunker alone (lines 354-358, SpecChunk).*)
(***************************************************************************)
EXTENDS Integers, Sequences, FiniteSets, TLC

\* ------------------------------------------------------------------ bounds
\* Inbound webhook events delivered during a run.
MaxEvents == 3

Events == 1..MaxEvents
Users == {"U1", "U2"}

\* ------------------------------------------------------------------- texts
\* A text is a record: the n characters of the string named s that start
\* at offset from.  Text(s, n) is the whole string s, of length n.
Text(s, n) == [s |-> s, from |-> 0, n |-> n]

\* Python's len() of a text.
len(text) == text.n
NoText == Text("", 0)

\* The message text the webhook events carry.  handle_message passes the
\* text on without reading it, and process_message ends before it reads it.
Hello == Text("Hello", 5)
UserTexts == {Hello}

\* What the backend (line 135) answers while it is up, and the two fixed
\* apology texts of lines 146 and 364 (two different strings in the source).
HiThere == Text("Hi there!", 9)
BackendApology == Text("apology of line 146", 16)
TaskApology == Text("apology of line 364", 15)

\* A user with no document in the Session Store.
Absent == [exists |-> FALSE, messages |-> << >>, code |-> ""]

VARIABLES
    reqPc,      \* reqPc[e]: where the request thread of event e is
    reqUser,    \* reqUser[e]: event.source.user_id
    reqMsg,     \* reqMsg[e]: event.message.text.strip()
    thr,        \* thr[e]: the Thread object made for event e at line 175
    user_lock,  \* the registry of line 26: user -> event whose Thread it holds
    backend,    \* "up" or "down": whether the completion backend answers
    store,      \* the Session Store: users/<user> documents
    replies,    \* replies[e]: the reply_message calls made with e's token
    \* Part 2, the prompt assembly of lines 212-256 taken as a function:
    bPc,        \* the line the assembly is at
    user_message,  \* user_message
    messages,   \* the local list `messages` of process_message
    system_prompt,      \* the content of the system entry (line 247)
    history_for_chat,   \* the local list sent to the backend
    \* Part 3, the try statement of lines 199-367 taken on its own:
    tPc,        \* the line the turn is at
    turn,       \* the number of the turn, which is its reply token
    user_data,  \* the local user_data (line 205 or 208)
    review_prompt,      \* the local review_prompt
    review_code,        \* the local review_code
    assistant_reply,    \* the local assistant_reply
    raised,     \* the calls of the turn that raised, by line
    review_status,      \* the codes with a record in review_status/<user>
    worksheet   \* the number of writes made to the Google Sheet

buildVars == <<bPc, user_message, messages, system_prompt, history_for_chat>>
turnVars_but_pc ==
    <<turn, user_data, review_prompt, review_code, assistant_reply, raised>>
turnVars == <<tPc, turnVars_but_pc>>
sinkVars == <<review_status, worksheet>>
blockVars == <<buildVars, turnVars, sinkVars>>

vars == <<reqPc, reqUser, reqMsg, thr, user_lock, backend, store, replies,
          blockVars>>

NoUser == "none"
NoThread == 0

\* threading.Thread.is_alive(): started and not yet ended.
is_alive(t) == thr[t] = "running"

\* The thread of t has ended, by return or by an exception.
Ended(t) == thr[t] \in {"dead", "raised"}

\* The process_message tasks of user u that are running.
Running(u) == {t \in Events : reqUser[t] = u /\ is_alive(t)}

\* No event delivered yet, no thread made, every user without a document.
ProgramIdle ==
    /\ reqPc = [e \in Events |-> "idle"]
    /\ reqUser = [e \in Events |-> NoUser]
    /\ reqMsg = [e \in Events |-> NoText]
    /\ thr = [e \in Events |-> "none"]
    /\ user_lock = [u \in Users |-> NoThread]
    /\ store = [u \in Users |-> Absent]
    /\ replies = [e \in Events |-> << >>]

\* The prompt assembly is not in use.
BuildIdle ==
    /\ bPc = "off"
    /\ user_message = NoText
    /\ messages = << >>
    /\ system_prompt = NoText
    /\ history_for_chat = << >>

\* The try statement is not in use.
TurnIdle ==
    /\ turn = 0
    /\ user_data = Absent
    /\ review_prompt = NoText
    /\ review_code = ""
    /\ assistant_reply = NoText
    /\ raised = {}
    /\ review_status = {}
    /\ worksheet = 0

Init ==
    /\ ProgramIdle
    /\ backend \in {"up", "down"}
    /\ BuildIdle
    /\ tPc = "off"
    /\ TurnIdle

\* Line 171 without the is_alive() test: any registry entry refuses.
Busy_NoAliveTest(u) == user_lock[u] # NoThread

\* Line 171: user_id in user_lock and user_lock[user_id].is_alive().
Busy(u) == user_lock[u] # NoThread /\ is_alive(user_lock[u])

\* Lines 156-173: the webhook delivers event e, a message m of user u, to a
\* request thread, which reaches line 171: the message is ignored when the
\* registry holds a live thread for the user; otherwise control goes on to
\* line 175.  Events are numbered in the order they reach line 171.
Check(e, u, m) ==
    /\ reqPc[e] = "idle"
    /\ \A d \in Events : d < e => reqPc[d] # "idle"
    /\ reqUser' = [reqUser EXCEPT ![e] = u]
    /\ reqMsg' = [reqMsg EXCEPT ![e] = m]
    /\ reqPc' = [reqPc EXCEPT ![e] = IF Busy(u) THEN "dropped" ELSE "l175"]
    /\ UNCHANGED <<thr, user_lock, backend, store, replies>>
    /\ UNCHANGED blockVars

\* Line 175: a new Thread object is made and stored in the registry.
Create(e) ==
    /\ reqPc[e] = "l175"
    /\ thr' = [thr EXCEPT ![e] = "new"]
    /\ user_lock' = [user_lock EXCEPT ![reqUser[e]] = e]
    /\ reqPc' = [reqPc EXCEPT ![e] = "l176"]
    /\ UNCHANGED <<reqUser, reqMsg, backend, store, replies>>
    /\ UNCHANGED blockVars

\* Line 176: user_lock[user_id].start().  The registry is read again, so the
\* Thread started is the one the registry holds now.  Thread.start() raises
\* RuntimeError when the thread was started before.
Start(e) ==
    /\ reqPc[e] = "l176"
    /\ LET t == user_lock[reqUser[e]] IN
         IF thr[t] = "new"
           THEN /\ thr' = [thr EXCEPT ![t] = "running"]
                /\ reqPc' = [reqPc EXCEPT ![e] = "done"]
           ELSE /\ thr' = thr
                /\ reqPc' = [reqPc EXCEPT ![e] = "error"]
    /\ UNCHANGED <<reqUser, reqMsg, user_lock, backend, store, replies>>
    /\ UNCHANGED blockVars

\* Line 176 when the interpreter cannot start a new thread: start() raises
\* RuntimeError and the Thread never becomes alive.
StartFails(e) ==
    /\ reqPc[e] = "l176"
    /\ thr[user_lock[reqUser[e]]] = "new"
    /\ reqPc' = [reqPc EXCEPT ![e] = "error"]
    /\ UNCHANGED <<reqUser, reqMsg, thr, user_lock, backend, store, replies>>
    /\ UNCHANGED blockVars

\* Lines 181-184 on the worker thread: the print of line 182, then line 184
\* raises UnboundLocalError (see the module comment).  The thread ends by
\* that exception ("raised"; a thread whose target returns is "dead");
\* nothing is read from or written to the store, no reply is sent and the
\* registry entry is left as it is.
process_message(t) ==
    /\ thr[t] = "running"
    /\ thr' = [thr EXCEPT ![t] = "raised"]
    /\ UNCHANGED <<reqPc, reqUser, reqMsg, user_lock, backend, store, replies>>
    /\ UNCHANGED blockVars

\* Lines 166-176, one step of the request thread of event e.
handle_message(e) ==
    \/ \E u \in Users, m \in UserTexts : Check(e, u, m)
    \/ Create(e)
    \/ Start(e)
    \/ StartFails(e)

Next ==
    \/ \E e \in Events : handle_message(e)
    \/ \E t \in Events : process_message(t)

Spec == Init /\ [][Next]_vars

\* The scheduler runs every started worker thread.
SpecFair == Spec /\ \A t \in Events : WF_vars(process_message(t))

\* --------------------------------------------------------------- histories
Turn(role, content) == [role |-> role, content |-> content]

\* The turns stored for user u (empty while u has no document).
History(u) == store[u].messages

\* Whether turns a, b are stored next to each other, in this order, for u.
StoredPair(u, a, b) ==
    \E i \in 1..(Len(History(u)) - 1) : History(u)[i] = a /\ History(u)[i + 1] = b

\* The request thread of e takes the step of line 171 in this transition.
Decides(e) == reqPc[e] = "idle" /\ reqPc'[e] # "idle"

\* ----------------------------------------------------------- prompt assembly
(***************************************************************************)
(* Part 2: lines 212 and 244-256 of process_message, the assembly of the   *)
(* list sent to the backend, as a function of the stored turns, the        *)
(* incoming text and the directive.  The running program never reaches     *)
(* these lines (Part 1); SpecBuild applies them to every input within the  *)
(* bounds below.                                                           *)
(***************************************************************************)
\* The character budget of line 254.
Budget == 3000

\* The longest stored history drawn.
MaxHist == 3

\* Contents drawn for the stored turns and the incoming message: lengths on
\* both sides of the budget and of its half.
BuildTexts ==
    { Text("a", 1),
      Text("h-", (Budget \div 2) - 1),
      Text("h", Budget \div 2),
      Text("b", Budget),
      Text("b+", Budget + 1) }

Roles == {"user", "assistant"}
BuildTurns == {Turn(r, c) : r \in Roles, c \in BuildTexts}

\* The directives of line 247: the default one (lines 28-107), and the
\* prompt text of a review_prompts document.
DEFAULT_SYSTEM_PROMPT == Text("DEFAULT_SYSTEM_PROMPT", 1566)
ReviewPromptText == Text("prompt of review_prompts/ABC123", 400)

\* Sequences over S of length at most n.
SeqUpTo(S, n) == UNION {[1..k -> S] : k \in 0..n}

\* list.append(x) in place of list.insert(1, x).
Insert1_Append(list, x) == Append(list, x)

\* list.insert(1, x) on a list that has a first element.
Insert1(list, x) == <<list[1]>> \o <<x>> \o Tail(list)

RECURSIVE BuildLoop_InsertFirst(_, _, _, _)
\* The loop with the insert made before the budget test.
BuildLoop_InsertFirst(msgs, i, total_chars, acc) ==
    IF i = 0 THEN acc
    ELSE LET total == total_chars + len(msgs[i].content)
             grown == Insert1(acc, Turn(msgs[i].role, msgs[i].content))
         IN  IF total > Budget THEN grown
             ELSE BuildLoop_InsertFirst(msgs, i - 1, total, grown)

RECURSIVE BuildLoop(_, _, _, _)
\* Lines 252-256: the loop over reversed(messages), at the element of index
\* i (counted from the front), with total_chars and history_for_chat so far.
BuildLoop(msgs, i, total_chars, acc) ==
    IF i = 0 THEN acc
    ELSE LET total == total_chars + len(msgs[i].content)
         IN  IF total > Budget THEN acc
             ELSE BuildLoop(msgs, i - 1, total,
                            Insert1(acc, Turn(msgs[i].role, msgs[i].content)))

\* Lines 245-256: the list sent to the backend.
BuildHistoryForChat(msgs, directive) ==
    BuildLoop(msgs, Len(msgs), 0, <<Turn("system", directive)>>)

\* Every stored history, incoming message and directive within the bounds,
\* before line 212.
InitBuild ==
    /\ ProgramIdle
    /\ backend = "up"
    /\ bPc = "l212"
    /\ user_message \in BuildTexts
    /\ messages \in SeqUpTo(BuildTurns, MaxHist)
    /\ system_prompt \in {DEFAULT_SYSTEM_PROMPT, ReviewPromptText}
    /\ history_for_chat = << >>
    /\ tPc = "off"
    /\ TurnIdle

\* Line 212: messages.append({"role": "user", "content": user_message}).
AppendIncoming ==
    /\ bPc = "l212"
    /\ messages' = Append(messages, Turn("user", user_message))
    /\ bPc' = "l250"
    /\ UNCHANGED <<user_message, system_prompt, history_for_chat, turnVars, sinkVars>>
    /\ UNCHANGED <<reqPc, reqUser, reqMsg, thr, user_lock, backend, store, replies>>

\* Lines 245-256.
BuildPrompt ==
    /\ bPc = "l250"
    /\ history_for_chat' = BuildHistoryForChat(messages, system_prompt)
    /\ bPc' = "l259"
    /\ UNCHANGED <<user_message, messages, system_prompt, turnVars, sinkVars>>
    /\ UNCHANGED <<reqPc, reqUser, reqMsg, thr, user_lock, backend, store, replies>>

NextBuild == AppendIncoming \/ BuildPrompt

SpecBuild == InitBuild /\ [][NextBuild]_vars

RECURSIVE SumLen(_)
\* The total content length of a list of turns.
SumLen(turns) ==
    IF turns = << >> THEN 0 ELSE len(Head(turns).content) + SumLen(Tail(turns))

\* The turns of the assembled list that come from the stored history: all
\* but the system entry and, when it was kept, the incoming message.
IncludedHistory ==
    IF Len(history_for_chat) <= 2 THEN << >>
    ELSE SubSeq(history_for_chat, 2, Len(history_for_chat) - 1)

\* The number of turns of `messages` the assembled list holds.
Kept == Len(history_for_chat) - 1

\* ------------------------------------------------------------ the try block
(***************************************************************************)
(* Part 3: the try statement of process_message, lines 199-367, entered    *)
(* directly and run for one user, one turn after the other, as a function  *)
(* of the stored session, the incoming text and the backend's answer.  The *)
(* running program never enters it (Part 1): SpecTurn shows what these     *)
(* lines compute, not what the program does.  In SpecTurn every call to    *)
(* the store, the spreadsheet and the reply API succeeds, but for the      *)
(* update of line 226 on a missing document; SpecFault lets them raise.    *)
(***************************************************************************)
TurnUser == "U1"

\* Turns of the session run one after the other; turn k uses the thread
\* and the reply token of event k.
MaxTurns == 2

\* Texts that match the pattern of line 217, with a six-character code:
\* "abc123", which upper-cased is a document of review_prompts, and
\* "zzz999", which is not.
ActOK == Text("activation text with abc123", 18)
ActBad == Text("activation text with zzz999", 18)

\* A morning daily log: a text with the three fields of line 289.
DiaryMsg == Text("morning daily log", 30)
TurnTexts == {Hello, ActOK, ActBad, DiaryMsg}

\* Answers of the backend: plain, with bold markup, with the marker of
\* line 349 that ends a review, and with the marker of line 268 for goal 1.
BoldHi == Text("**Hi** there!", 13)
DoneReply == Text("answer with the completion marker", 40)
GoalReply == Text("answer with the marker of goal 1", 30)
BackendAnswers == {HiThere, BoldHi, DoneReply, GoalReply}

\* Line 217: match.group(2) of the search, "" when there is no match.
ActivationCode(text) ==
    CASE text = ActOK -> "abc123"
      [] text = ActBad -> "zzz999"
      [] OTHER -> ""

\* Line 219: str.upper().
Upper(code) ==
    CASE code = "abc123" -> "ABC123"
      [] code = "zzz999" -> "ZZZ999"
      [] OTHER -> code

\* The collection review_prompts: document id -> its "prompt" field.
Catalog == [c \in {"ABC123"} |-> ReviewPromptText]
PromptDocExists(code) == code \in DOMAIN Catalog

\* Lines 149-153: remove_markdown.
remove_markdown(text) == IF text = BoldHi THEN HiThere ELSE text

\* Line 349: the completion marker is a substring of the text.
HasCompletionMarker(text) == text = DoneReply

\* Lines 267-270: one of the five goal markers is a substring of the text.
HasGoalMarker(text) == text = GoalReply

\* Lines 289 and 319: the message has the fields of a daily log.
IsDailyLog(text) == text = DiaryMsg

\* A user document that exists and holds no field yet.
EmptyDoc == [exists |-> TRUE, messages |-> << >>, code |-> ""]

\* user_ref.update({"current_review_code": code}) on a document that
\* exists; "" stands for firestore.DELETE_FIELD.
UpdateCode(doc, code) == [doc EXCEPT !.code = code]

\* user_ref.set({"messages": msgs}, merge=True): creates the document when
\* there is none, and leaves its other fields as they are.
SetMessages(doc, msgs) == [doc EXCEPT !.exists = TRUE, !.messages = msgs]

\* Line 354.
max_length == 200

\* text[i:j], for 0 <= i < len(text).
Slice(text, i, j) ==
    [s |-> text.s, from |-> text.from + i,
     n |-> (IF j < text.n THEN j ELSE text.n) - i]

\* Lines 355-358 with a range that stops before an incomplete last segment.
Chunks_NoTail(text) ==
    [k \in 1..(len(text) \div max_length) |->
        Slice(text, (k - 1) * max_length, k * max_length)]

\* Lines 355-358: the segments of the reply.
Chunks(text) ==
    [k \in 1..((len(text) + max_length - 1) \div max_length) |->
        Slice(text, (k - 1) * max_length, k * max_length)]

\* A session before its first turn: no document, or an empty one.
InitTurn ==
    /\ reqPc = [e \in Events |-> "idle"]
    /\ reqUser = [e \in Events |-> NoUser]
    /\ reqMsg = [e \in Events |-> NoText]
    /\ thr = [e \in Events |-> "none"]
    /\ user_lock = [u \in Users |-> NoThread]
    /\ replies = [e \in Events |-> << >>]
    /\ \E d \in {Absent, EmptyDoc} :
           store = [u \in Users |-> IF u = TurnUser THEN d ELSE Absent]
    /\ backend \in {"up", "down"}
    /\ BuildIdle
    /\ tPc = "idle"
    /\ TurnIdle

\* Line 199: the try statement is entered for a message m of TurnUser, on
\* the worker thread that lines 175-176 registered and started for it.
BeginTurn(m) ==
    /\ tPc = "idle"
    /\ turn < MaxTurns
    /\ turn' = turn + 1
    /\ reqPc' = [reqPc EXCEPT ![turn + 1] = "done"]
    /\ reqUser' = [reqUser EXCEPT ![turn + 1] = TurnUser]
    /\ reqMsg' = [reqMsg EXCEPT ![turn + 1] = m]
    /\ thr' = [thr EXCEPT ![turn + 1] = "running"]
    /\ user_lock' = [user_lock EXCEPT ![TurnUser] = turn + 1]
    /\ user_message' = m
    /\ tPc' = "l201"
    /\ user_data' = Absent
    /\ messages' = << >>
    /\ review_prompt' = NoText
    /\ review_code' = ""
    /\ system_prompt' = NoText
    /\ history_for_chat' = << >>
    /\ assistant_reply' = NoText
    /\ raised' = {}
    /\ UNCHANGED <<backend, store, replies, bPc, sinkVars>>

\* Lines 201-212: the session is read and the incoming turn appended.
ReadSession ==
    /\ tPc = "l201"
    /\ user_data' = store[TurnUser]
    /\ messages' = Append(store[TurnUser].messages, Turn("user", user_message))
    /\ tPc' = "l215"
    /\ UNCHANGED <<turn, review_prompt, review_code, assistant_reply, raised>>
    /\ UNCHANGED <<bPc, user_message, system_prompt, history_for_chat, sinkVars>>
    /\ UNCHANGED <<reqPc, reqUser, reqMsg, thr, user_lock, backend, store, replies>>

\* Line 226, user_ref.update(...): Firestore's update raises NotFound when
\* the document does not exist; the except clause of line 229 prints it
\* and goes on.
StoreAfterActivation(doc, code) == IF doc.exists THEN UpdateCode(doc, code) ELSE doc

\* Lines 215-242: the review code and prompt of the turn.
ResolveReview ==
    /\ tPc = "l215"
    /\ LET code == ActivationCode(user_message) IN
         IF code # ""
           THEN /\ review_code' = Upper(code)
                /\ IF PromptDocExists(Upper(code))
                     THEN /\ review_prompt' = Catalog[Upper(code)]
                          /\ store' = [store EXCEPT ![TurnUser] =
                                         StoreAfterActivation(@, Upper(code))]
                          /\ raised' = IF store[TurnUser].exists THEN raised
                                       ELSE raised \cup {"l226"}
                     ELSE /\ review_prompt' = NoText
                          /\ store' = store
                          /\ raised' = raised
           ELSE /\ review_code' = user_data.code
                /\ review_prompt' =
                       IF user_data.code # "" /\ PromptDocExists(user_data.code)
                         THEN Catalog[user_data.code] ELSE NoText
                /\ store' = store
                /\ raised' = raised
    /\ tPc' = "l245"
    /\ UNCHANGED <<turn, user_data, assistant_reply, sinkVars>>
    /\ UNCHANGED <<bPc, user_message, messages, system_prompt, history_for_chat>>
    /\ UNCHANGED <<reqPc, reqUser, reqMsg, thr, user_lock, backend, replies>>

\* Lines 245-256: the directive and the list sent to the backend.
BuildTurnPrompt ==
    /\ tPc = "l245"
    /\ LET directive == IF review_prompt # NoText THEN review_prompt
                        ELSE DEFAULT_SYSTEM_PROMPT
       IN  /\ system_prompt' = directive
           /\ history_for_chat' = BuildHistoryForChat(messages, directive)
    /\ tPc' = "l259"
    /\ UNCHANGED <<bPc, user_message, messages, turnVars_but_pc, sinkVars>>
    /\ UNCHANGED <<reqPc, reqUser, reqMsg, thr, user_lock, backend, store, replies>>

\* Lines 133-146: the answer of the backend, stripped, or the fixed apology
\* when the call raises.
run_chat_completion(answer) == IF backend = "up" THEN answer ELSE BackendApology

\* Lines 259-260.
CallBackend(answer) ==
    /\ tPc = "l259"
    /\ assistant_reply' = remove_markdown(run_chat_completion(answer))
    /\ tPc' = "l262"
    /\ UNCHANGED <<turn, user_data, review_prompt, review_code, raised>>
    /\ UNCHANGED <<buildVars, sinkVars>>
    /\ UNCHANGED <<reqPc, reqUser, reqMsg, thr, user_lock, backend, store, replies>>

\* Lines 262-263: the assistant turn is appended and the list stored.
WriteHistory ==
    /\ tPc = "l262"
    /\ messages' = Append(messages, Turn("assistant", assistant_reply))
    /\ store' = [store EXCEPT ![TurnUser] = SetMessages(@, messages')]
    /\ tPc' = "l266"
    /\ UNCHANGED <<bPc, user_message, system_prompt, history_for_chat>>
    /\ UNCHANGED <<turnVars_but_pc, sinkVars>>
    /\ UNCHANGED <<reqPc, reqUser, reqMsg, thr, user_lock, backend, replies>>

\* Lines 272-281: the codes with a record in review_status/<user> after
\* the set(..., merge=True) of a turn that answered `reply` under `code`.
StatusAfterTurn(status, reply, code) ==
    IF HasGoalMarker(reply) /\ code # "" THEN status \cup {code} ELSE status

\* Lines 266-282: the sub-goal record.
RecordSubgoal ==
    /\ tPc = "l266"
    /\ review_status' = StatusAfterTurn(review_status, assistant_reply, review_code)
    /\ tPc' = "l284"
    /\ UNCHANGED <<buildVars, turnVars_but_pc, worksheet>>
    /\ UNCHANGED <<reqPc, reqUser, reqMsg, thr, user_lock, backend, store, replies>>

\* Lines 344-345: where the turn goes on after a call of the spreadsheet
\* block raised: the except clause of the inner try prints the error and
\* the turn continues with line 349.
AfterSheetFailure_NoInnerTry == "l361"
AfterSheetFailure == "l349"

\* Lines 285-343 for a message that is not a daily log, or is one and
\* the spreadsheet calls succeed: one row is written.
LogDiary ==
    /\ tPc = "l284"
    /\ worksheet' = IF IsDailyLog(user_message) THEN worksheet + 1 ELSE worksheet
    /\ tPc' = "l349"
    /\ UNCHANGED <<buildVars, turnVars_but_pc, review_status>>
    /\ UNCHANGED <<reqPc, reqUser, reqMsg, thr, user_lock, backend, store, replies>>

\* Lines 285-345 for a daily log when get_all_records, get_profile, update
\* or append_row raises: nothing is written to the sheet.
LogDiaryFails ==
    /\ tPc = "l284"
    /\ IsDailyLog(user_message)
    /\ raised' = raised \cup {"sheet"}
    /\ tPc' = AfterSheetFailure
    /\ UNCHANGED <<turn, user_data, review_prompt, review_code, assistant_reply>>
    /\ UNCHANGED <<buildVars, sinkVars>>
    /\ UNCHANGED <<reqPc, reqUser, reqMsg, thr, user_lock, backend, store, replies>>

\* Lines 349-350: the user document after the turn's clearing step.
StoreAfterClear_Never(doc, reply, code) == doc
StoreAfterClear(doc, reply, code) ==
    IF HasCompletionMarker(reply) /\ code # "" THEN UpdateCode(doc, "") ELSE doc

\* Lines 349-351: the stored code is deleted when the review is over.
ClearReview ==
    /\ tPc = "l349"
    /\ store' = [store EXCEPT ![TurnUser] =
                    StoreAfterClear(@, assistant_reply, review_code)]
    /\ tPc' = "l354"
    /\ UNCHANGED <<buildVars, turnVars_but_pc, sinkVars>>
    /\ UNCHANGED <<reqPc, reqUser, reqMsg, thr, user_lock, backend, replies>>

\* Lines 354-359: the reply is sent in segments, in one reply_message call.
Reply ==
    /\ tPc = "l354"
    /\ replies' = [replies EXCEPT ![turn] = Append(@, Chunks(assistant_reply))]
    /\ tPc' = "l366"
    /\ UNCHANGED <<buildVars, turnVars_but_pc, sinkVars>>
    /\ UNCHANGED <<reqPc, reqUser, reqMsg, thr, user_lock, backend, store>>

\* Lines 365-367, and the end of the thread: the registry entry of the
\* user is deleted.  The thread ends by returning, or, when the reply of
\* line 364 raised inside the except clause, by that exception.
Finally ==
    /\ tPc = "l366"
    /\ user_lock' = [user_lock EXCEPT ![TurnUser] = NoThread]
    /\ thr' = [thr EXCEPT ![turn] = IF "l364" \in raised THEN "raised" ELSE "dead"]
    /\ tPc' = "idle"
    /\ UNCHANGED <<buildVars, turnVars_but_pc, sinkVars>>
    /\ UNCHANGED <<reqPc, reqUser, reqMsg, backend, store, replies>>

NextTurn ==
    \/ \E m \in TurnTexts : BeginTurn(m)
    \/ ReadSession
    \/ ResolveReview
    \/ BuildTurnPrompt
    \/ \E answer \in BackendAnswers : CallBackend(answer)
    \/ WriteHistory
    \/ RecordSubgoal
    \/ LogDiary
    \/ ClearReview
    \/ Reply
    \/ Finally

SpecTurn == InitTurn /\ [][NextTurn]_vars

(***************************************************************************)
(* Part 3 with failing calls: any call of the try statement to the Session *)
(* Store, the spreadsheet or the LINE reply API may raise.  A call that    *)
(* raises has no effect on the service it was made to.                     *)
(***************************************************************************)

\* The call at `line` raises and control passes to the except clause of
\* line 361.
RaiseAt(pc, line) ==
    /\ tPc = pc
    /\ raised' = raised \cup {line}
    /\ tPc' = "l361"
    /\ UNCHANGED <<turn, user_data, review_prompt, review_code, assistant_reply>>
    /\ UNCHANGED <<bPc, user_message, system_prompt, history_for_chat, sinkVars>>
    /\ UNCHANGED <<reqPc, reqUser, reqMsg, thr, user_lock, backend, store, replies>>

\* Line 202: user_ref.get() raises.
ReadSessionFails == RaiseAt("l201", "l202") /\ UNCHANGED messages

\* Line 263: line 262 has appended the assistant turn to the local list,
\* and user_ref.set raises.
WriteHistoryFails ==
    /\ RaiseAt("l262", "l263")
    /\ messages' = Append(messages, Turn("assistant", assistant_reply))

\* Line 273: review_ref.set raises.
RecordSubgoalFails ==
    /\ HasGoalMarker(assistant_reply) /\ review_code # ""
    /\ RaiseAt("l266", "l273")
    /\ UNCHANGED messages

\* Line 350: user_ref.update raises.
ClearReviewFails ==
    /\ HasCompletionMarker(assistant_reply) /\ review_code # ""
    /\ RaiseAt("l349", "l350")
    /\ UNCHANGED messages

\* Line 359: reply_message raises, and nothing is delivered.
ReplyFails == RaiseAt("l354", "l359") /\ UNCHANGED messages

\* Lines 361-364: the except clause sends the fixed apology.
Except ==
    /\ tPc = "l361"
    /\ replies' = [replies EXCEPT ![turn] = Append(@, <<TaskApology>>)]
    /\ tPc' = "l366"
    /\ UNCHANGED <<buildVars, turnVars_but_pc, sinkVars>>
    /\ UNCHANGED <<reqPc, reqUser, reqMsg, thr, user_lock, backend, store>>

\* Line 364: the reply_message call of the except clause raises; the
\* finally clause runs and the exception leaves process_message.
ExceptFails ==
    /\ tPc = "l361"
    /\ raised' = raised \cup {"l364"}
    /\ tPc' = "l366"
    /\ UNCHANGED <<turn, user_data, review_prompt, review_code, assistant_reply>>
    /\ UNCHANGED <<buildVars, sinkVars>>
    /\ UNCHANGED <<reqPc, reqUser, reqMsg, thr, user_lock, backend, store, replies>>

NextFault ==
    \/ NextTurn
    \/ ReadSessionFails
    \/ WriteHistoryFails
    \/ RecordSubgoalFails
    \/ LogDiaryFails
    \/ ClearReviewFails
    \/ ReplyFails
    \/ Except
    \/ ExceptFails

SpecFault == InitTurn /\ [][NextFault]_vars

(***************************************************************************)
(* The chunker of lines 354-358 as a function of the text to send.         *)
(***************************************************************************)
\* The longest text drawn: two full segments and one character.
MaxReplyLen == 401

InitChunk ==
    /\ ProgramIdle
    /\ backend = "up"
    /\ BuildIdle
    /\ tPc = "l354"
    /\ turn = 1
    /\ user_data = Absent
    /\ review_prompt = NoText
    /\ review_code = ""
    /\ \E n \in 0..MaxReplyLen : assistant_reply = Text("reply", n)
    /\ raised = {}
    /\ review_status = {}
    /\ worksheet = 0

NextChunk == Reply

SpecChunk == InitChunk /\ [][NextChunk]_vars

\* ------------------------------------------------------------------ claims

\* C1: at no time are two process_message tasks of one user running
\* concurrently.
C1_SingleFlight == \A u \in Users : Cardinality(Running(u)) <= 1

\* C2: once a processing task of user U has ended, U is not locked out: a
\* message of U that is decided at line 171 while no task of U is running is
\* admitted, and every started task ends and every held slot is freed.
C2_NoLockout ==
    /\ [][\A e \in Events :
            (Decides(e) /\ Running(reqUser'[e]) = {}) => reqPc'[e] = "l175"]_vars
    /\ \A t \in Events : (thr[t] = "running") ~> Ended(t)
    /\ \A u \in Users : Busy(u) ~> ~Busy(u)

\* C2 witness: the task of t has ended by the uncaught exception of line
\* 184, the registry still holds its Thread, and a later message e of the
\* same user has been admitted.
C2_Witness ==
    \E t, e \in Events :
        /\ t < e /\ reqUser[t] = reqUser[e]
        /\ thr[t] = "raised" /\ user_lock[reqUser[t]] = t
        /\ reqPc[e] = "l175"

\* C3: a message of user U that is decided while a task of U is running is
\* dropped: handle_message goes on to start no task for it.
C3_DroppedWhileRunning ==
    [][\A e \in Events :
         (Decides(e) /\ Running(reqUser'[e]) # {}) => reqPc'[e] = "dropped"]_vars

\* C4: when the backend is failing, the task of an admitted message ends with
\* the fixed apology of run_chat_completion stored as the assistant turn
\* after the user's turn, that apology sent as the one reply, and the slot
\* of the user free.
C4_ApologyPersisted ==
    \A e \in Events :
        (backend = "down" /\ Ended(e)) =>
            /\ StoredPair(reqUser[e], Turn("user", reqMsg[e]),
                          Turn("assistant", BackendApology))
            /\ replies[e] = << <<BackendApology>> >>
            /\ (Running(reqUser[e]) = {} => ~Busy(reqUser[e]))

\* C5: the task of an admitted message "Hello" that the backend answers
\* with "Hi there!" ends with the two turns stored, the user's turn and then
\* the assistant's, after the turns stored before; the history of a user who
\* had no document is then exactly these two turns.
C5_TwoTurnsStored ==
    \A e \in Events :
        (backend = "up" /\ Ended(e) /\ reqMsg[e] = Hello) =>
            /\ StoredPair(reqUser[e], Turn("user", Hello),
                          Turn("assistant", HiThere))
            /\ (\A d \in Events \ {e} : reqUser[d] # reqUser[e]) =>
                   History(reqUser[e]) =
                       <<Turn("user", Hello), Turn("assistant", HiThere)>>

\* Whether list a is a prefix of list b.
IsPrefix(a, b) == Len(a) <= Len(b) /\ SubSeq(b, 1, Len(a)) = a

\* C6: stored history is append-only: every write leaves the turns stored
\* before it in place, for every user.
C6_AppendOnly ==
    [][\A u \in Users : IsPrefix(History(u), store'[u].messages)]_vars

\* C7: the list assembled for a turn ends with the incoming message, whole,
\* whatever its length.
C7_NewestKept ==
    bPc = "l259" =>
        history_for_chat[Len(history_for_chat)] = Turn("user", user_message)

\* C8: the contents of the stored turns included in the assembled list
\* (system entry and incoming message not counted) total at most 3000
\* characters.
C8_HistoryWithinBudget ==
    bPc = "l259" => SumLen(IncludedHistory) <= Budget

\* C8 witness: an assembled list that holds stored turns and has dropped
\* older ones.
C8_Witness ==
    /\ bPc = "l259"
    /\ Len(IncludedHistory) >= 2
    /\ Kept < Len(messages)
    /\ SumLen(IncludedHistory) + len(user_message) = Budget

\* C9: the assembled list is the system entry followed by the most recent
\* turns of `messages`, unchanged and in their stored order, with no gap.
C9_ChronologicalSuffix ==
    bPc = "l259" =>
        /\ Kept \in 0..Len(messages)
        /\ history_for_chat =
               <<Turn("system", system_prompt)>>
               \o SubSeq(messages, Len(messages) - Kept + 1, Len(messages))

\* C9 witness: three turns kept, of different contents, and an older one
\* dropped.
C9_Witness ==
    /\ bPc = "l259"
    /\ Kept = 3
    /\ Len(messages) = 4
    /\ history_for_chat[2].content # history_for_chat[3].content
    /\ history_for_chat[3].content # history_for_chat[4].content

\* C10: a turn whose message matches the activation pattern with a code of
\* the catalog ends with that code stored as current_review_code, in any
\* session state, a user without a document included (as long as the answer
\* of the same turn does not end the review).
C10_ActivationPersisted ==
    (tPc = "idle" /\ user_message = ActOK /\ ~HasCompletionMarker(assistant_reply))
        => store[TurnUser].code = "ABC123"

DirectiveOfSession(stored, text) ==
    LET entered == Upper(ActivationCode(text)) IN
    IF entered # "" /\ PromptDocExists(entered) THEN Catalog[entered]
    ELSE IF stored # "" /\ PromptDocExists(stored) THEN Catalog[stored]
    ELSE DEFAULT_SYSTEM_PROMPT

\* C12: the system entry of a turn's prompt is the directive of the review
\* the session is in for that turn, freshly entered or carried over from
\* the store, and the default directive only when it is in none; an
\* activation with a code that does not resolve, received during a review,
\* is answered under that review's directive.
C12_DirectiveOfState ==
    tPc = "l259" =>
        /\ system_prompt = DirectiveOfSession(user_data.code, user_message)
        /\ history_for_chat[1] = Turn("system", system_prompt)

\* C13: a message that matches the activation pattern with a code that
\* does not resolve changes nothing of the review state: the user document
\* after the attempt (line 245 reached) is the one the turn read, the
\* stored code at the end of the turn is the one read (unless the answer
\* ended the review), and no record of review_status is ever kept under a
\* code that does not resolve.
C13_UnresolvedIgnored ==
    /\ (tPc = "l245" /\ user_message = ActBad) => store[TurnUser] = user_data
    /\ (tPc = "idle" /\ user_message = ActBad
            /\ ~HasCompletionMarker(assistant_reply))
           => store[TurnUser].code = user_data.code
    /\ \A code \in review_status : PromptDocExists(code)

\* a + b for two texts: the characters of a followed by those of b.  Two
\* slices of one string join into a slice of it when b starts where a
\* ends; any other pair joins into a text that is no slice of it.
Concat(a, b) ==
    IF a.n = 0 THEN b
    ELSE IF b.n = 0 THEN a
    ELSE IF a.s = b.s /\ a.from + a.n = b.from
           THEN [s |-> a.s, from |-> a.from, n |-> a.n + b.n]
    ELSE [s |-> "other", from |-> 0, n |-> a.n + b.n]

\* "".join(segs[i:]) appended to acc.
RECURSIVE JoinFrom(_, _, _)
JoinFrom(segs, i, acc) ==
    IF i > Len(segs) THEN acc ELSE JoinFrom(segs, i + 1, Concat(acc, segs[i]))

\* Equality of two texts: the same characters.
SameText(a, b) == (a.n = 0 /\ b.n = 0) \/ a = b

\* C14: the segments handed to reply_message are each at most 200
\* characters long and, joined in order, are the text exactly, for every
\* length from 0 to two full segments and one character.
C14_ChunksExact ==
    tPc = "l366" =>
        LET segs == replies[turn][Len(replies[turn])] IN
        /\ \A k \in 1..Len(segs) : len(segs[k]) <= max_length
        /\ SameText(JoinFrom(segs, 1, NoText), assistant_reply)

\* C14 witness: a text of 201 characters was cut into a segment of 200
\* and a segment of one.
C14_Witness ==
    /\ tPc = "l366"
    /\ len(assistant_reply) = max_length + 1
    /\ Len(replies[turn][1]) = 2
    /\ len(replies[turn][1][1]) = max_length
    /\ replies[turn][1][2] = [s |-> "reply", from |-> max_length, n |-> 1]

\* C15: no process_message task ends with an exception that was not
\* caught inside it: every thread that has ended ended by returning.
C15_AllCaught == \A t \in Events : Ended(t) => thr[t] = "dead"

\* C16: the task of an admitted message ends with exactly one reply call
\* made with its reply token, the segments of the answer or the one
\* apology of line 364: never none and never both.
C16_ExactlyOneReply ==
    \A e \in Events :
        Ended(e) =>
            /\ Len(replies[e]) = 1
            /\ \/ replies[e][1] = <<TaskApology>>
               \/ \E answer \in BackendAnswers \cup {BackendApology} :
                      replies[e][1] = Chunks(remove_markdown(answer))

\* The answer of the turn was delivered with the turn's reply token.
AnswerDelivered ==
    \E i \in 1..Len(replies[turn]) : replies[turn][i] = Chunks(assistant_reply)

\* C17: a turn in which the backend answered and a write to the user
\* document then raised (the history write of line 263 or the clearing
\* update of line 350), and no other call did, ends with the answer
\* delivered to the user.
C17_ReplyDespiteStoreFailure ==
    (/\ tPc = "idle"
     /\ backend = "up"
     /\ raised # {} /\ raised \subseteq {"l263", "l350"})
        => AnswerDelivered

\* The outcome of a finished turn whose store and reply calls succeeded,
\* as a function of what the turn read, received and was answered: the
\* answer is the one reply, the history is the one read with the two turns
\* appended, the stored code is the one of lines 226 and 350, and the slot
\* of the user is free.
TurnOutcome ==
    /\ replies[turn] = <<Chunks(assistant_reply)>>
    /\ History(TurnUser) =
           user_data.messages
           \o <<Turn("user", user_message), Turn("assistant", assistant_reply)>>
    /\ store[TurnUser].code =
           IF HasCompletionMarker(assistant_reply) /\ review_code # "" THEN ""
           ELSE IF review_prompt # NoText /\ user_data.exists THEN review_code
           ELSE user_data.code
    /\ user_lock[TurnUser] = NoThread
    /\ thr[turn] = "dead"

\* C18: a turn in which a call of the spreadsheet block raised ends as a
\* turn in which it did not: with the same reply, stored history and
\* stored review code, and with the slot released.
C18_AuditFailureHarmless ==
    (tPc = "idle" /\ turn > 0 /\ raised \subseteq {"sheet", "l226"})
        => TurnOutcome

\* C18 witness: the turn of a daily log whose spreadsheet call raised has
\* ended: nothing was written to the sheet, the answer was sent and the
\* slot is free.
C18_Witness ==
    /\ tPc = "idle"
    /\ user_message = DiaryMsg
    /\ raised = {"sheet"}
    /\ worksheet = 0
    /\ replies[turn] = <<Chunks(assistant_reply)>>
    /\ History(TurnUser)[Len(History(TurnUser))] = Turn("assistant", assistant_reply)
    /\ user_lock[TurnUser] = NoThread

\* The turn has stored its list `messages`, assistant turn included
\* (line 263 has succeeded).
AssistantTurnPersisted ==
    /\ messages # << >>
    /\ messages[Len(messages)] = Turn("assistant", assistant_reply)
    /\ History(TurnUser) = messages

\* C19: what a turn that has stored an assistant turn replied to the user
\* is the content of that stored turn, and never the apology while the
\* history holds the answer.
C19_ReplyMatchesHistory ==
    (tPc = "idle" /\ turn > 0 /\ AssistantTurnPersisted)
        => \A i \in 1..Len(replies[turn]) :
               replies[turn][i] = Chunks(assistant_reply)

\* C20: whenever a process_message task of a user is running, the
\* registry holds an entry for that user and the entry is a live thread.
C20_RunningIsRegistered ==
    \A u \in Users :
        Running(u) # {} => (user_lock[u] # NoThread /\ is_alive(user_lock[u]))
====
